---------------------------- MODULE Spec2Model ----------------------------
(***************************************************************************)
(* askai: a command-line front end that forwards a one-shot prompt to an   *)
(* external LLM CLI.  The model covers                                     *)
(*   - the provider adapter (askai/providers/claude.py): alias resolution  *)
(*     and build_command;                                                  *)
(*   - the configuration store (askai/config.py): load, merge, save, set,  *)
(*     reset, including the shallow copies of the class-level default      *)
(*     mapping;                                                            *)
(*   - the orchestrator (askai/main.py, askai/cli.py): one run of main().  *)
(*                                                                         *)
(* Python values are tagged records: a str is [t |-> "str", v |-> s], an   *)
(* int [t |-> "int", n |-> i], None [t |-> "null"], a dict                 *)
(* [t |-> "dict", d |-> f] with f a function from keys to values, and an   *)
(* object the json module cannot serialise [t |-> "obj"].  A dict that is  *)
(* the very object held by the class attribute DEFAULT_CONFIG under key k  *)
(* (what dict.copy() leaves behind) is [t |-> "alias", key |-> k].         *)
(***************************************************************************)
EXTENDS Integers, Sequences, FiniteSets, TLC

VARIABLES
    DEFAULT_CONFIG,  \* ConfigManager.DEFAULT_CONFIG, the class attribute (one per process)
    disk,            \* the configuration file at config_path
    mgr,             \* the live ConfigManager: its state and its _config
    last,            \* what the last configuration operation did (history)
    saved,           \* the mapping written by the last successful save (history)
    nsets,           \* set() calls so far
    nloads,          \* ConfigManager constructions so far
    args,            \* the parsed command line of this run of main()
    pc,              \* main()'s position
    exitCode,        \* the exit status of the run, once it ended
    trace,           \* the steps this run of main() has taken (history)
    env,             \* the environment of the run: the PATH lookup, the child
    bc               \* one build_command call: its arguments and its result

vars     == <<DEFAULT_CONFIG, disk, mgr, last, saved, nsets, nloads,
              args, pc, exitCode, trace, env, bc>>

---------------------------------------------------------------------------
(* Python values *)

Null     == [t |-> "null"]
Obj      == [t |-> "obj"]
Str(s)   == [t |-> "str", v |-> s]
IntV(i)   == [t |-> "int", n |-> i]
Dict(f)  == [t |-> "dict", d |-> f]
Alias(k) == [t |-> "alias", key |-> k]

EmptyMap == [k \in {} |-> Null]

Put(f, k, v) == [x \in (DOMAIN f) \cup {k} |-> IF x = k THEN v ELSE f[x]]

\* {**a, **b}: the entries of b win
Union(a, b) ==
  [x \in (DOMAIN a) \cup (DOMAIN b) |-> IF x \in DOMAIN b THEN b[x] ELSE a[x]]

---------------------------------------------------------------------------
(* Strings as the characters they hold, for str.lower() *)

Chars(s) ==
  CASE s = "" -> <<>>
    [] s = "haiku" -> <<"h", "a", "i", "k", "u">>
    [] s = "sonnet" -> <<"s", "o", "n", "n", "e", "t">>
    [] s = "opus" -> <<"o", "p", "u", "s">>
    [] s = "haiku-4" -> <<"h", "a", "i", "k", "u", "-", "4">>
    [] s = "haiku-4-5" -> <<"h", "a", "i", "k", "u", "-", "4", "-", "5">>
    [] s = "4-5-haiku" -> <<"4", "-", "5", "-", "h", "a", "i", "k", "u">>
    [] s = "sonnet-4" -> <<"s", "o", "n", "n", "e", "t", "-", "4">>
    [] s = "sonnet-4-5" -> <<"s", "o", "n", "n", "e", "t", "-", "4", "-", "5">>
    [] s = "4-5-sonnet" -> <<"4", "-", "5", "-", "s", "o", "n", "n", "e", "t">>
    [] s = "opus-4" -> <<"o", "p", "u", "s", "-", "4">>
    [] s = "opus-4-1" -> <<"o", "p", "u", "s", "-", "4", "-", "1">>
    [] s = "4-1-opus" -> <<"4", "-", "1", "-", "o", "p", "u", "s">>
    [] s = "HAIKU" -> <<"H", "A", "I", "K", "U">>
    [] s = "Haiku" -> <<"H", "a", "i", "k", "u">>
    [] s = "hAiKu" -> <<"h", "A", "i", "K", "u">>
    [] s = "Sonnet" -> <<"S", "o", "n", "n", "e", "t">>
    [] s = "OPUS" -> <<"O", "P", "U", "S">>
    [] s = "Opus-4-1" -> <<"O", "p", "u", "s", "-", "4", "-", "1">>
    [] s = "4-5-SONNET" -> <<"4", "-", "5", "-", "S", "O", "N", "N", "E", "T">>
    [] s = "gpt-4" -> <<"g", "p", "t", "-", "4">>
    [] s = "GPT-4" -> <<"G", "P", "T", "-", "4">>
    [] s = "haiku-5" -> <<"h", "a", "i", "k", "u", "-", "5">>
    [] s = "claude" -> <<"c", "l", "a", "u", "d", "e">>
    [] s = "gemini" -> <<"g", "e", "m", "i", "n", "i">>
    [] s = "SONNET" -> <<"S", "O", "N", "N", "E", "T">>
    [] s = "Opus" -> <<"O", "p", "u", "s">>
    [] s = "HAIKU-4" -> <<"H", "A", "I", "K", "U", "-", "4">>
    [] s = "Haiku-4" -> <<"H", "a", "i", "k", "u", "-", "4">>
    [] s = "HAIKU-4-5" -> <<"H", "A", "I", "K", "U", "-", "4", "-", "5">>
    [] s = "Haiku-4-5" -> <<"H", "a", "i", "k", "u", "-", "4", "-", "5">>
    [] s = "4-5-HAIKU" -> <<"4", "-", "5", "-", "H", "A", "I", "K", "U">>
    [] s = "4-5-Haiku" -> <<"4", "-", "5", "-", "H", "a", "i", "k", "u">>
    [] s = "SONNET-4" -> <<"S", "O", "N", "N", "E", "T", "-", "4">>
    [] s = "Sonnet-4" -> <<"S", "o", "n", "n", "e", "t", "-", "4">>
    [] s = "SONNET-4-5" -> <<"S", "O", "N", "N", "E", "T", "-", "4", "-", "5">>
    [] s = "Sonnet-4-5" -> <<"S", "o", "n", "n", "e", "t", "-", "4", "-", "5">>
    [] s = "4-5-Sonnet" -> <<"4", "-", "5", "-", "S", "o", "n", "n", "e", "t">>
    [] s = "OPUS-4" -> <<"O", "P", "U", "S", "-", "4">>
    [] s = "Opus-4" -> <<"O", "p", "u", "s", "-", "4">>
    [] s = "OPUS-4-1" -> <<"O", "P", "U", "S", "-", "4", "-", "1">>
    [] s = "4-1-OPUS" -> <<"4", "-", "1", "-", "O", "P", "U", "S">>
    [] s = "4-1-Opus" -> <<"4", "-", "1", "-", "O", "p", "u", "s">>
    [] s = "sOnNeT" -> <<"s", "O", "n", "N", "e", "T">>

\* The strings the model draws model names from; closed under lower().
StringUniverse ==
  {"", "haiku", "sonnet", "opus", "haiku-4", "haiku-4-5", "4-5-haiku",
   "sonnet-4", "sonnet-4-5", "4-5-sonnet", "opus-4", "opus-4-1", "4-1-opus",
   "HAIKU", "Haiku", "hAiKu", "Sonnet", "OPUS", "Opus-4-1", "4-5-SONNET",
   "gpt-4", "GPT-4", "haiku-5", "claude", "gemini",
   "SONNET", "Opus", "HAIKU-4", "Haiku-4", "HAIKU-4-5", "Haiku-4-5",
   "4-5-HAIKU", "4-5-Haiku", "SONNET-4", "Sonnet-4", "SONNET-4-5",
   "Sonnet-4-5", "4-5-Sonnet", "OPUS-4", "Opus-4", "OPUS-4-1", "4-1-OPUS",
   "4-1-Opus", "sOnNeT"}

UpperToLower ==
  [c \in {"A", "E", "G", "H", "I", "K", "N", "O", "P", "S", "T", "U"} |->
     CASE c = "A" -> "a" [] c = "E" -> "e" [] c = "G" -> "g" [] c = "H" -> "h"
       [] c = "I" -> "i" [] c = "K" -> "k" [] c = "N" -> "n" [] c = "O" -> "o"
       [] c = "P" -> "p" [] c = "S" -> "s" [] c = "T" -> "t" [] c = "U" -> "u"]

LowerChar(c) == IF c \in DOMAIN UpperToLower THEN UpperToLower[c] ELSE c

\* the string of the universe that holds exactly these characters
StrOf(cs) == CHOOSE s \in StringUniverse : Chars(s) = cs

\* str.lower(): every character lower-cased
Lower(s) == StrOf([i \in 1..Len(Chars(s)) |-> LowerChar(Chars(s)[i])])

---------------------------------------------------------------------------
(* Provider adapter: askai/providers/claude.py *)

MODELS ==
  [m \in {"haiku", "sonnet", "opus"} |->
     CASE m = "haiku"  -> "claude-haiku-4-5-20251001"
       [] m = "sonnet" -> "claude-sonnet-4-5-20250929"
       [] m = "opus"   -> "claude-opus-4-1-20250805"]

\* A plausible bug: an alias entered as an alias of an alias (two hops).
AliasesChained ==
  [a \in {"haiku", "sonnet", "opus", "haiku-4", "haiku-4-5", "4-5-haiku",
          "sonnet-4", "sonnet-4-5", "4-5-sonnet", "opus-4", "opus-4-1",
          "4-1-opus"} |->
     CASE a \in {"haiku", "haiku-4", "4-5-haiku"}                    -> "haiku"
       [] a = "haiku-4-5"                                            -> "haiku-4"
       [] a \in {"sonnet", "sonnet-4", "sonnet-4-5", "4-5-sonnet"}   -> "sonnet"
       [] a \in {"opus", "opus-4", "opus-4-1", "4-1-opus"}           -> "opus"]

MODEL_ALIASES ==
  [a \in {"haiku", "sonnet", "opus", "haiku-4", "haiku-4-5", "4-5-haiku",
          "sonnet-4", "sonnet-4-5", "4-5-sonnet", "opus-4", "opus-4-1",
          "4-1-opus"} |->
     CASE a \in {"haiku", "haiku-4", "haiku-4-5", "4-5-haiku"}       -> "haiku"
       [] a \in {"sonnet", "sonnet-4", "sonnet-4-5", "4-5-sonnet"}   -> "sonnet"
       [] a \in {"opus", "opus-4", "opus-4-1", "4-1-opus"}           -> "opus"]

get_default_model == "haiku"

ConcisePrefix == "Answer concisely in under 100 words: "

\* an f-string: the literal text followed by the interpolated string
Cat(a, b) == <<a, b>>

Ok(x)      == [ok |-> TRUE, val |-> x]
Raise(e)   == [ok |-> FALSE, err |-> e]

\* A plausible bug: the lookup without the lower-casing.
ResolveNoLower(model) ==
  IF model.t \notin {"null", "str"} THEN Raise("AttributeError")
  ELSE LET m0 == IF model.t = "null" THEN get_default_model ELSE model.v
           m2 == IF m0 \in DOMAIN MODEL_ALIASES THEN MODEL_ALIASES[m0] ELSE m0
       IN  IF m2 \notin DOMAIN MODELS THEN Raise("ValueError") ELSE Ok(MODELS[m2])

\* ClaudeProvider._resolve_model: model is None or any Python value
resolve_model(model) ==
  IF model.t \notin {"null", "str"} THEN Raise("AttributeError")   \* no .lower()
  ELSE LET m0 == IF model.t = "null" THEN get_default_model ELSE model.v
           m1 == Lower(m0)
           m2 == IF m1 \in DOMAIN MODEL_ALIASES THEN MODEL_ALIASES[m1] ELSE m1
       IN  IF m2 \notin DOMAIN MODELS THEN Raise("ValueError") ELSE Ok(MODELS[m2])

\* ClaudeProvider.build_command
build_command(prompt, model) ==
  LET r == resolve_model(model)
  IN  IF ~r.ok THEN r
      ELSE Ok(<<"claude", "--model", r.val, Cat(ConcisePrefix, prompt)>>)

Prompts == {"what is python?", "", "explain async/await"}

ModelArgs == {Null} \cup {Str(s) : s \in StringUniverse}

---------------------------------------------------------------------------
(* Configuration store: askai/config.py *)

\* The literal the class attribute DEFAULT_CONFIG is created from.
DefaultMapping ==
  [k \in {"default_provider", "default_models", "max_response_words"} |->
     CASE k = "default_provider"   -> Str("claude")
       [] k = "default_models"     ->
            Dict([p \in {"claude", "gemini"} |->
                    IF p = "claude" THEN Str("haiku") ELSE Str("gemini-flash")])
       [] k = "max_response_words" -> IntV(100)]

\* The dict a value denotes: an alias is the object DEFAULT_CONFIG holds.
Deref(D, v) == IF v.t = "alias" THEN D[v.key] ELSE v

\* A _config as Python compares and prints it.
View(D, c) == [k \in DOMAIN c |-> Deref(D, c[k])]

\* dict.copy() of DEFAULT_CONFIG: a new top-level dict whose nested dicts are
\* the very objects of the class attribute.
ShallowCopy(D) == [k \in DOMAIN D |-> IF D[k].t = "dict" THEN Alias(k) ELSE D[k]]

\* A plausible bug: the loaded value replaces the default nested dict wholesale.
MergeReplace(D, loaded) ==
  [k \in (DOMAIN D) \cup (DOMAIN loaded) |->
     IF k \in DOMAIN loaded THEN loaded[k] ELSE ShallowCopy(D)[k]]

\* A plausible bug: the operands of the nested union swapped, so that the
\* default entries win over the loaded ones.
MergeDefaultsWin(D, loaded) ==
  [k \in (DOMAIN D) \cup (DOMAIN loaded) |->
     IF k \notin DOMAIN loaded THEN ShallowCopy(D)[k]
     ELSE IF k \in DOMAIN D /\ D[k].t = "dict" /\ loaded[k].t = "dict"
          THEN Dict(Union(loaded[k].d, D[k].d))
          ELSE loaded[k]]

\* ConfigManager._merge_with_defaults, D being the class attribute
merge_with_defaults(D, loaded) ==
  LET merged == ShallowCopy(D)
  IN  [k \in (DOMAIN merged) \cup (DOMAIN loaded) |->
         IF k \notin DOMAIN loaded THEN merged[k]
         ELSE IF k \in DOMAIN merged /\ D[k].t = "dict" /\ loaded[k].t = "dict"
              THEN Dict(Union(D[k].d, loaded[k].d))
              ELSE loaded[k]]

\* Every key the model uses, in the order sort_keys=True writes them.
KeyOrder ==
  <<"", "claude", "default_models", "default_provider", "gemini",
    "max_response_words", "openai", "theme">>

SortedKeys(S) == SelectSeq(KeyOrder, LAMBDA k : k \in S)

RECURSIVE Serializable(_)
\* whether json.dump accepts the value
Serializable(v) ==
  CASE v.t = "obj"  -> FALSE
    [] v.t = "dict" -> \A k \in DOMAIN v.d : Serializable(v.d[k])
    [] OTHER        -> TRUE

RECURSIVE Encode(_)
\* json.dump(..., sort_keys=True): the JSON document of a value
Encode(v) ==
  CASE v.t = "str"  -> [j |-> "string", v |-> v.v]
    [] v.t = "int"  -> [j |-> "number", n |-> v.n]
    [] v.t = "null" -> [j |-> "null"]
    [] v.t = "dict" ->
         LET ks == SortedKeys(DOMAIN v.d)
         IN  [j |-> "object",
              items |-> [i \in 1..Len(ks) |-> <<ks[i], Encode(v.d[ks[i]])>>]]

RECURSIVE Decode(_)
\* json.load: the value of a JSON document
Decode(doc) ==
  CASE doc.j = "string" -> Str(doc.v)
    [] doc.j = "number" -> IntV(doc.n)
    [] doc.j = "null"   -> Null
    [] doc.j = "array"  -> [t |-> "list"]
    [] doc.j = "object" ->
         Dict([k \in {doc.items[i][1] : i \in 1..Len(doc.items)} |->
                 LET i == CHOOSE i \in 1..Len(doc.items) :
                            /\ doc.items[i][1] = k
                            /\ \A m \in (i+1)..Len(doc.items) : doc.items[m][1] # k
                 IN  Decode(doc.items[i][2])])

\* The file: absent, or its content and permission mode.  Content is a JSON
\* document, the prefix of one that a failed write left, text that is no JSON,
\* or bytes that are no UTF-8.
Absent == [exists |-> FALSE]
File(kind, doc, mode) == [exists |-> TRUE, kind |-> kind, doc |-> doc, mode |-> mode]

NoDoc == [j |-> "null"]

\* the longest prefix of a document's items that json.dump writes before it
\* meets a value it cannot serialise
FirstBad(v) ==
  LET ks == SortedKeys(DOMAIN v.d)
  IN  IF \E i \in 1..Len(ks) : ~Serializable(v.d[ks[i]])
      THEN (CHOOSE i \in 1..Len(ks) :
              /\ ~Serializable(v.d[ks[i]])
              /\ \A m \in 1..(i-1) : Serializable(v.d[ks[m]])) - 1
      ELSE Len(ks)

PrefixDoc(v, n) ==
  LET ks == SortedKeys(DOMAIN v.d)
  IN  [j |-> "object",
       items |-> [i \in 1..n |-> <<ks[i], Encode(v.d[ks[i]])>>]]

\* ConfigManager._save of the mapping c (as json sees it) over the file d.
\* failAt is the step the operating system fails.  The text is small enough to
\* stay in the file object's buffer, so a write the system refuses leaves the
\* file as open("w") cut it: empty.
Save(c, d, failAt) ==
  LET opened == IF d.exists THEN d.mode ELSE "0o644"   \* mode left by open("w")
  IN  IF failAt \in {"mkdir", "open"}
      THEN [disk |-> d, raised |-> FALSE, warned |-> TRUE]
      ELSE IF ~Serializable(Dict(c))
      THEN \* TypeError is no OSError: it leaves _save, the file opened and cut
           [disk |-> File("partial", PrefixDoc(Dict(c), FirstBad(Dict(c))), opened),
            raised |-> TRUE, warned |-> FALSE]
      ELSE IF failAt = "write"
      THEN [disk |-> File("partial", PrefixDoc(Dict(c), 0), opened),
            raised |-> FALSE, warned |-> TRUE]
      ELSE IF failAt = "chmod"
      THEN [disk |-> File("json", Encode(Dict(c)), opened),
            raised |-> FALSE, warned |-> TRUE]
      ELSE [disk |-> File("json", Encode(Dict(c)), "0o600"),
            raised |-> FALSE, warned |-> FALSE]

\* the steps of _save the operating system can fail, given the file
SaveFailures(d) ==
  {"none", "open", "write", "chmod"} \cup (IF d.exists THEN {} ELSE {"mkdir"})

RECURSIVE SplitFrom(_, _)
SplitFrom(toks, cur) ==
  IF toks = <<>> THEN <<cur>>
  ELSE IF Head(toks) = "." THEN <<cur>> \o SplitFrom(Tail(toks), "")
  ELSE SplitFrom(Tail(toks), Head(toks))

\* key.split("."): a key is written as its pieces of text with "." between them
Split(key) == SplitFrom(key, "")

RECURSIVE GetIn(_, _, _, _)
\* ConfigManager.get: walk the segments, the default at the first miss
GetIn(D, value, segs, default) ==
  IF segs = <<>> THEN Deref(D, value)
  ELSE LET here == Deref(D, value)
       IN  IF here.t = "dict" /\ Head(segs) \in DOMAIN here.d
           THEN GetIn(D, here.d[Head(segs)], Tail(segs), default)
           ELSE default

get(D, c, key, default) == GetIn(D, Dict(c), Split(key), default)

RECURSIVE SetIn(_, _, _)
\* the loop and the final assignment of set(), inside a dict that is reached
SetIn(d, segs, value) ==
  IF Len(segs) = 1 THEN Put(d, segs[1], value)
  ELSE LET k     == segs[1]
           child == IF k \in DOMAIN d /\ d[k].t = "dict" THEN d[k].d ELSE EmptyMap
       IN  Put(d, k, Dict(SetIn(child, Tail(segs), value)))

\* ConfigManager.set without its save: the new _config and the new class
\* attribute (a nested dict reached through an alias is the class attribute's)
SetPath(D, c, segs, value) ==
  IF Len(segs) = 1 THEN [config |-> Put(c, segs[1], value), D |-> D]
  ELSE LET k == segs[1]
       IN  IF k \in DOMAIN c /\ c[k].t = "alias"
           THEN [config |-> c,
                 D |-> [D EXCEPT ![c[k].key] =
                          Dict(SetIn(D[c[k].key].d, Tail(segs), value))]]
           ELSE [config |-> SetIn(c, segs, value), D |-> D]

\* A plausible bug: _load writing the file back after every load that ends.
LoadAlwaysSaves(D, d, ioerr) ==
  IF ~d.exists
  THEN [raised |-> FALSE, err |-> "", warned |-> FALSE, saves |-> TRUE,
        config |-> ShallowCopy(D)]
  ELSE IF ioerr \/ d.kind \in {"partial", "garbage"}
  THEN [raised |-> FALSE, err |-> "", warned |-> TRUE, saves |-> TRUE,
        config |-> ShallowCopy(D)]
  ELSE IF d.kind = "binary"
  THEN [raised |-> TRUE, err |-> "UnicodeDecodeError", warned |-> FALSE,
        saves |-> FALSE, config |-> EmptyMap]
  ELSE LET loaded == Decode(d.doc)
       IN  IF loaded.t # "dict"
           THEN [raised |-> TRUE, err |-> "AttributeError", warned |-> FALSE,
                 saves |-> FALSE, config |-> EmptyMap]
           ELSE [raised |-> FALSE, err |-> "", warned |-> FALSE, saves |-> TRUE,
                 config |-> merge_with_defaults(D, loaded.d)]

\* ConfigManager._load up to its save: ioerr is open() failing with OSError
Load(D, d, ioerr) ==
  IF ~d.exists
  THEN [raised |-> FALSE, err |-> "", warned |-> FALSE, saves |-> TRUE,
        config |-> ShallowCopy(D)]
  ELSE IF ioerr \/ d.kind \in {"partial", "garbage"}
  THEN [raised |-> FALSE, err |-> "", warned |-> TRUE, saves |-> FALSE,
        config |-> ShallowCopy(D)]
  ELSE IF d.kind = "binary"
  THEN [raised |-> TRUE, err |-> "UnicodeDecodeError", warned |-> FALSE,
        saves |-> FALSE, config |-> EmptyMap]
  ELSE LET loaded == Decode(d.doc)
       IN  IF loaded.t # "dict"
           THEN [raised |-> TRUE, err |-> "AttributeError", warned |-> FALSE,
                 saves |-> FALSE, config |-> EmptyMap]
           ELSE [raised |-> FALSE, err |-> "", warned |-> FALSE, saves |-> FALSE,
                 config |-> merge_with_defaults(D, loaded.d)]

NoManager == [state |-> "none", config |-> EmptyMap]
Live(c)   == [state |-> "live", config |-> c]

NoSaved == [valid |-> FALSE, cfg |-> EmptyMap]

NoOp == [op |-> "none", raised |-> FALSE, err |-> "", warned |-> FALSE,
         saveTried |-> FALSE, failAt |-> "none", before |-> Absent]

\* the history of a successful save, or of a failed one that touched the file
SavedAfter(s, c, r, d) ==
  IF ~r.raised /\ ~r.warned THEN [valid |-> TRUE, cfg |-> c]
  ELSE IF r.disk = d THEN s ELSE NoSaved

\* the files the store may find
HandEdited1 ==
  [k \in {"default_models"} |-> Dict([p \in {"openai"} |-> Str("gpt-4")])]
HandEdited2 ==
  [k \in {"default_provider", "theme"} |->
     IF k = "theme" THEN Str("dark") ELSE Str("gemini")]

InitialDisks ==
  { Absent,
    File("json", Encode(Dict(DefaultMapping)), "0o600"),
    File("json", Encode(Dict(HandEdited1)), "0o644"),
    File("json", Encode(Dict(HandEdited2)), "0o644"),
    File("json", [j |-> "array"], "0o644"),
    File("garbage", NoDoc, "0o644"),
    File("binary", NoDoc, "0o600") }

MaxSets  == 1
MaxLoads == 2

SetKeys ==
  { <<"default_models">>,
    <<"default_models", ".", "claude">>, <<"default_models", ".", "openai">>,
    <<"theme", ".", "claude">> }

SetValues ==
  { Str("opus"), Dict([p \in {"claude"} |-> Str("sonnet")]), Obj }

---------------------------------------------------------------------------
(* The parts of the state a specification does not use *)

NoArgs == [prompt |-> Null, provider |-> Null, model |-> Null,
           list_providers |-> FALSE, list_models |-> Null,
           config_path |-> FALSE, config_show |-> FALSE, config_reset |-> FALSE,
           version |-> FALSE, verbose |-> FALSE, dry_run |-> FALSE]

NotEnded == [ended |-> FALSE]

NoChild == [state |-> "none"]

\* disk0 is the file as the run found it (history); provider and model are
\* the ones the orchestrator resolved; child is the external process
Env(d) == [disk0 |-> d, provider |-> Null, model |-> Null, command |-> <<>>,
           spawned |-> 0, child |-> NoChild]

NoEnv == Env(Absent)

MainIdle ==
  /\ args = NoArgs
  /\ pc = "idle"
  /\ exitCode = NotEnded
  /\ trace = <<>>
  /\ env = NoEnv

BuildIdle == bc = [state |-> "idle"]

CfgStart(d) ==
  /\ DEFAULT_CONFIG = DefaultMapping
  /\ disk = d
  /\ mgr = NoManager
  /\ last = NoOp
  /\ saved = NoSaved
  /\ nsets = 0
  /\ nloads = 0

---------------------------------------------------------------------------
(* The configuration store as a library: managers are constructed, used and *)
(* dropped, in one process or in successive ones, over one file.            *)

NoSave(d) == [disk |-> d, raised |-> FALSE, warned |-> FALSE]

\* ConfigManager(): __init__ runs _load, which saves when the file is absent
ConstructEffect(ioerr, failAt) ==
  /\ ioerr => disk.exists
  /\ LET r == Load(DEFAULT_CONFIG, disk, ioerr)
         c == View(DEFAULT_CONFIG, r.config)
         s == IF r.saves THEN Save(c, disk, failAt) ELSE NoSave(disk)
     IN  /\ IF r.saves
            THEN failAt \in SaveFailures(disk)
            ELSE failAt = "none"
         /\ mgr' = IF r.raised \/ s.raised THEN NoManager ELSE Live(r.config)
         /\ disk' = s.disk
         /\ last' = [op |-> "load", raised |-> r.raised \/ s.raised,
                     err |-> IF s.raised THEN "TypeError" ELSE r.err,
                     warned |-> r.warned \/ s.warned, saveTried |-> r.saves,
                     failAt |-> IF ioerr THEN "read" ELSE failAt, before |-> disk]
         /\ saved' = IF r.saves THEN SavedAfter(saved, c, s, disk) ELSE saved
  /\ UNCHANGED DEFAULT_CONFIG

Construct(ioerr, failAt) ==
  /\ mgr.state = "none"
  /\ nloads < MaxLoads
  /\ ConstructEffect(ioerr, failAt)
  /\ nloads' = nloads + 1
  /\ UNCHANGED <<nsets, args, pc, exitCode, trace, env, bc>>

\* config.set(key, value, save)
SetOp(key, value, save, failAt) ==
  /\ mgr.state = "live"
  /\ nsets < MaxSets
  /\ LET p == SetPath(DEFAULT_CONFIG, mgr.config, Split(key), value)
         c == View(p.D, p.config)
         s == IF save THEN Save(c, disk, failAt) ELSE NoSave(disk)
     IN  /\ IF save
            THEN failAt \in SaveFailures(disk)
            ELSE failAt = "none"
         /\ mgr' = Live(p.config)
         /\ DEFAULT_CONFIG' = p.D
         /\ disk' = s.disk
         /\ last' = [op |-> "set", raised |-> s.raised,
                     err |-> IF s.raised THEN "TypeError" ELSE "",
                     warned |-> s.warned, saveTried |-> save,
                     failAt |-> failAt, before |-> disk]
         /\ saved' = IF save THEN SavedAfter(saved, c, s, disk) ELSE saved
  /\ nsets' = nsets + 1
  /\ UNCHANGED <<nloads, args, pc, exitCode, trace, env, bc>>

\* config.reset_to_defaults()
ResetEffect(failAt) ==
  /\ LET fresh == ShallowCopy(DEFAULT_CONFIG)
         c     == View(DEFAULT_CONFIG, fresh)
         s     == Save(c, disk, failAt)
     IN  /\ failAt \in SaveFailures(disk)
         /\ mgr' = Live(fresh)
         /\ disk' = s.disk
         /\ last' = [op |-> "reset", raised |-> s.raised,
                     err |-> IF s.raised THEN "TypeError" ELSE "",
                     warned |-> s.warned, saveTried |-> TRUE,
                     failAt |-> failAt, before |-> disk]
         /\ saved' = SavedAfter(saved, c, s, disk)
  /\ UNCHANGED DEFAULT_CONFIG

ResetOp(failAt) ==
  /\ mgr.state = "live"
  /\ ResetEffect(failAt)
  /\ UNCHANGED <<nsets, nloads, args, pc, exitCode, trace, env, bc>>

\* The manager goes out of use; with newProcess the interpreter exits too and
\* the next manager is built in a new process, whose class attribute is the
\* literal again.
Discard(newProcess) ==
  /\ mgr.state = "live"
  /\ mgr' = NoManager
  /\ DEFAULT_CONFIG' = IF newProcess THEN DefaultMapping ELSE DEFAULT_CONFIG
  /\ last' = [NoOp EXCEPT !.op = "discard"]
  /\ UNCHANGED <<disk, saved, nsets, nloads, args, pc, exitCode, trace, env, bc>>

FailPoints == {"none", "mkdir", "open", "write", "chmod"}

InitConfig ==
  /\ \E d \in InitialDisks : CfgStart(d)
  /\ MainIdle
  /\ BuildIdle

NextConfig ==
  \/ \E ioerr \in BOOLEAN, f \in FailPoints : Construct(ioerr, f)
  \/ \E k \in SetKeys, v \in SetValues, sv \in BOOLEAN, f \in FailPoints :
       SetOp(k, v, sv, f)
  \/ \E f \in FailPoints : ResetOp(f)
  \/ \E np \in BOOLEAN : Discard(np)

SpecConfig == InitConfig /\ [][NextConfig]_vars

---------------------------------------------------------------------------
(* The orchestrator: one run of main() (askai/main.py, askai/cli.py) *)

\* Python's truth value of an object
Truthy(v) ==
  CASE v.t = "null"  -> FALSE
    [] v.t = "str"   -> v.v # ""
    [] v.t = "int"   -> v.n # 0
    [] v.t = "dict"  -> DOMAIN v.d # {}
    [] OTHER         -> TRUE

\* a or b
Or(a, b) == IF Truthy(a) THEN a ELSE b

\* str.strip() on the provider names the model draws
Strip(s) == IF s = " " THEN "" ELSE s

\* get_provider's registry
providers == {"claude"}

\* A plausible bug: every non-zero status of the child reported as 1.
ReturnCodeFlattened(rc) == IF rc = 0 THEN 0 ELSE 1

\* return result.returncode
ReturnCode(rc) == rc

\* return n / sys.exit(n) or parser.exit(n): how the run ended
Return(code) == [ended |-> TRUE, code |-> code, how |-> "return"]
SysExit(code) == [ended |-> TRUE, code |-> code, how |-> "SystemExit"]

AnyInfoFlag(a) ==
  \/ a.list_providers
  \/ Truthy(a.list_models)
  \/ a.config_path
  \/ a.config_show
  \/ a.config_reset

AnyConfigFlag(a) == a.config_path \/ a.config_show \/ a.config_reset

End(code, event) ==
  /\ pc' = "done"
  /\ exitCode' = code
  /\ trace' = Append(trace, event)

Goto(next, event) ==
  /\ pc' = next
  /\ exitCode' = exitCode
  /\ trace' = Append(trace, event)

\* parse_args(): argparse runs the version action while it parses; the prompt
\* is required unless an informational flag is set
MParse ==
  /\ pc = "start"
  /\ IF args.version THEN End(SysExit(0), "version")
     ELSE IF ~AnyInfoFlag(args) /\ ~Truthy(args.prompt)
          THEN End(SysExit(2), "usage")
          ELSE Goto("validate", "parsed")
  /\ UNCHANGED <<DEFAULT_CONFIG, disk, mgr, last, saved, nsets, nloads, args, env, bc>>

\* A plausible bug: validate_args without its --dry-run check.
ArgsInconsistentNoDryRun(a) ==
  Truthy(a.list_models) /\ Strip(a.list_models.v) = ""

\* validate_args(): whether it raises ValueError
ArgsInconsistent(a) ==
  \/ Truthy(a.list_models) /\ Strip(a.list_models.v) = ""
  \/ a.dry_run /\ AnyConfigFlag(a)

MValidate ==
  /\ pc = "validate"
  /\ IF ArgsInconsistent(args) THEN End(Return(1), "rejected")
     ELSE Goto("load", "validated")
  /\ UNCHANGED <<DEFAULT_CONFIG, disk, mgr, last, saved, nsets, nloads, args, env, bc>>

\* config = ConfigManager()
MLoad(ioerr, failAt) ==
  /\ pc = "load"
  /\ ConstructEffect(ioerr, failAt)
  /\ IF last'.raised THEN End(Return(1), "load_raised")
     ELSE Goto("dispatch", "loaded")
  /\ UNCHANGED <<nsets, nloads, args, env, bc>>

\* the informational and configuration commands, in the order main() tests them
MDispatch(failAt) ==
  /\ pc = "dispatch"
  /\ IF args.config_reset /\ ~args.list_providers /\ ~Truthy(args.list_models)
        /\ ~args.config_path /\ ~args.config_show
     THEN /\ ResetEffect(failAt)
          /\ IF last'.raised THEN End(Return(1), "config_reset")
             ELSE End(Return(0), "config_reset")
     ELSE /\ failAt = "none"
          /\ UNCHANGED <<DEFAULT_CONFIG, disk, mgr, last, saved>>
          /\ IF args.list_providers THEN End(Return(0), "list_providers")
             ELSE IF Truthy(args.list_models)
             THEN IF args.list_models.v \in providers
                  THEN End(Return(0), "list_models")
                  ELSE End(SysExit(1), "list_models")
             ELSE IF args.config_path THEN End(Return(0), "config_path")
             ELSE IF args.config_show THEN End(Return(0), "config_show")
             ELSE Goto("provider", "no_flag")
  /\ UNCHANGED <<nsets, nloads, args, env, bc>>

\* provider_name = args.provider or config.get_default_provider()
EffectiveProvider(a, D, c) ==
  Or(a.provider, get(D, c, <<"default_provider">>, Str("claude")))

\* provider = get_provider(provider_name)
MProvider ==
  /\ pc = "provider"
  /\ LET name == EffectiveProvider(args, DEFAULT_CONFIG, mgr.config)
     IN  /\ env' = [env EXCEPT !.provider = name]
         /\ IF name.t = "str" /\ name.v \in providers
            THEN Goto("available", "registry")
            ELSE End(Return(1), "unknown_provider")
  /\ UNCHANGED <<DEFAULT_CONFIG, disk, mgr, last, saved, nsets, nloads, args, bc>>

\* A plausible bug: the run goes on although the tool is missing.
AfterAvailabilityIgnored(found) ==
  Goto("model", IF found THEN "available" ELSE "unavailable")

\* if not provider.check_available(): ... sys.exit(1)
AfterAvailability(found) ==
  IF found THEN Goto("model", "available")
  ELSE End(SysExit(1), "unavailable")

\* provider.check_available(): shutil.which finds the tool on PATH or not
MAvailable(found) ==
  /\ pc = "available"
  /\ AfterAvailability(found)
  /\ UNCHANGED <<DEFAULT_CONFIG, disk, mgr, last, saved, nsets, nloads, args, env, bc>>

\* A plausible bug: the stored default consulted before the flag.
EffectiveModelStoredFirst(a, D, c, name) ==
  Or(get(D, c, <<"default_models", ".", name>>, Null),
     Or(a.model, Str(get_default_model)))

\* model = args.model or config.get_default_model(provider_name)
\*         or provider.get_default_model()
EffectiveModel(a, D, c, name) ==
  Or(a.model,
     Or(get(D, c, <<"default_models", ".", name>>, Null), Str(get_default_model)))

\* command = provider.build_command(args.prompt, model)
MBuild ==
  /\ pc = "model"
  /\ LET model == EffectiveModel(args, DEFAULT_CONFIG, mgr.config, env.provider.v)
         r     == build_command(args.prompt.v, model)
     IN  IF r.ok
         THEN /\ env' = [env EXCEPT !.model = model, !.command = r.val]
              /\ Goto("execute", "built")
         ELSE /\ env' = [env EXCEPT !.model = model]
              /\ IF r.err = "ValueError" THEN End(SysExit(1), "unknown_model")
                 ELSE End(Return(1), "build_raised")
  /\ UNCHANGED <<DEFAULT_CONFIG, disk, mgr, last, saved, nsets, nloads, args, bc>>

\* the exit statuses the child may end with; negative: killed by a signal
ChildCodes == {0, 1, 2, 130, -9}

\* if args.dry_run: return 0
DryRun(a) == a.dry_run

\* the printing of the command, the dry run, and subprocess.run(command)
MExecute(outcome, rc) ==
  /\ pc = "execute"
  /\ LET shown == IF args.verbose \/ args.dry_run THEN <<"printed">> ELSE <<>>
     IN  IF DryRun(args)
         THEN /\ outcome = "dry" /\ rc = 0
              /\ env' = env
              /\ pc' = "done"
              /\ exitCode' = Return(0)
              /\ trace' = trace \o shown \o <<"dry_run">>
         ELSE \/ /\ outcome = "oserror" /\ rc = 0     \* the tool cannot be started
                 /\ env' = env
                 /\ pc' = "done"
                 /\ exitCode' = Return(1)
                 /\ trace' = trace \o shown \o <<"spawn_failed">>
              \/ /\ outcome = "exited"
                 /\ env' = [env EXCEPT !.spawned = @ + 1,
                                       !.child = [state |-> "exited", rc |-> rc]]
                 /\ pc' = "done"
                 /\ exitCode' = Return(ReturnCode(rc))
                 /\ trace' = trace \o shown \o <<"spawned", "exited">>
              \/ /\ outcome = "interrupted" /\ rc = 0  \* KeyboardInterrupt in the wait
                 /\ env' = [env EXCEPT !.spawned = @ + 1,
                                       !.child = [state |-> "interrupted"]]
                 /\ pc' = "done"
                 /\ exitCode' = Return(130)
                 /\ trace' = trace \o shown \o <<"spawned", "interrupted">>
  /\ UNCHANGED <<DEFAULT_CONFIG, disk, mgr, last, saved, nsets, nloads, args, bc>>

\* the command lines the model draws
ArgPrompts    == {Null, Str("what is python?")}
ArgProviders  == {Null, Str(""), Str("claude"), Str("gemini")}
ArgModels     == {Null, Str(""), Str("OPUS"), Str("gpt-4")}
ArgListModels == {Null, Str("claude"), Str("gemini"), Str(" ")}

FlagNames ==
  {"list_providers", "config_path", "config_show", "config_reset",
   "version", "verbose", "dry_run"}

\* at most this many of the boolean flags on one command line
MaxFlags == 3

ArgsOf(prompt, provider, model, lm, flags) ==
  [prompt |-> prompt, provider |-> provider, model |-> model,
   list_providers |-> "list_providers" \in flags, list_models |-> lm,
   config_path |-> "config_path" \in flags,
   config_show |-> "config_show" \in flags,
   config_reset |-> "config_reset" \in flags,
   version |-> "version" \in flags, verbose |-> "verbose" \in flags,
   dry_run |-> "dry_run" \in flags]

\* the files a run may find
StoredModels(v) == [k \in {"default_models"} |-> Dict([p \in {"claude"} |-> v])]

MainDisks ==
  { Absent,
    File("json", Encode(Dict(HandEdited2)), "0o644"),
    File("json", Encode(Dict(StoredModels(Str("Sonnet")))), "0o600"),
    File("json", Encode(Dict(StoredModels(Str("")))), "0o600"),
    File("json", Encode(Dict(StoredModels(IntV(5)))), "0o600"),
    File("json", Encode(Dict([k \in {"default_models"} |-> Null])), "0o600"),
    File("json", [j |-> "array"], "0o644"),
    File("garbage", NoDoc, "0o644") }

InitMain ==
  /\ \E d \in MainDisks :
       /\ CfgStart(d)
       /\ env = Env(d)
  /\ \E prompt \in ArgPrompts, provider \in ArgProviders, model \in ArgModels,
        lm \in ArgListModels, flags \in SUBSET FlagNames :
       /\ Cardinality(flags) <= MaxFlags
       /\ args = ArgsOf(prompt, provider, model, lm, flags)
  /\ pc = "start"
  /\ exitCode = NotEnded
  /\ trace = <<>>
  /\ BuildIdle

NextMain ==
  \/ MParse
  \/ MValidate
  \/ \E ioerr \in BOOLEAN, f \in FailPoints : MLoad(ioerr, f)
  \/ \E f \in FailPoints : MDispatch(f)
  \/ MProvider
  \/ \E found \in BOOLEAN : MAvailable(found)
  \/ MBuild
  \/ \E o \in {"dry", "oserror", "exited", "interrupted"}, rc \in ChildCodes :
       MExecute(o, rc)

SpecMain == InitMain /\ [][NextMain]_vars

\* the live manager's configuration as Python sees it
Current == View(DEFAULT_CONFIG, mgr.config)

IsDict(v) == v.t = "dict"

---------------------------------------------------------------------------
(* build_command on its own: every prompt, every model argument *)

\* a call of provider.build_command(prompt, model)
BuildCall ==
  /\ bc.state = "call"
  /\ bc' = [state |-> "done", prompt |-> bc.prompt, model |-> bc.model,
            out |-> build_command(bc.prompt, bc.model)]
  /\ UNCHANGED <<DEFAULT_CONFIG, disk, mgr, last, saved, nsets, nloads,
                 args, pc, exitCode, trace, env>>

InitBuild ==
  /\ \E d \in InitialDisks : CfgStart(d)
  /\ MainIdle
  /\ \E p \in Prompts, m \in ModelArgs :
       bc = [state |-> "call", prompt |-> p, model |-> m]

NextBuild == BuildCall

SpecBuild == InitBuild /\ [][NextBuild]_vars

---------------------------------------------------------------------------
(* Claims about the provider adapter, checked under SpecBuild *)

\* the result the claim describes for a prompt and a model argument
C3_Expected(prompt, model) ==
  LET low == Lower(IF model = Null THEN "haiku" ELSE model.v)
      s   == IF low \in DOMAIN MODEL_ALIASES THEN MODEL_ALIASES[low] ELSE low
  IN  IF low \notin DOMAIN MODEL_ALIASES /\ low \notin DOMAIN MODELS
      THEN Raise("ValueError")
      ELSE Ok(<<"claude", "--model", MODELS[s], Cat(ConcisePrefix, prompt)>>)

\* C3: build_command returns exactly ["claude", "--model", MODELS[s],
\* prefix + prompt], s being the lower-cased model (or "haiku") after at most
\* one alias hop, or fails with the unknown-model error; it fails exactly when
\* the lower-cased name is neither an alias nor a canonical short name; and a
\* call changes neither the file, the configuration nor the class attribute.
C3_BuildCommandExact ==
  /\ [](bc.state = "done" => bc.out = C3_Expected(bc.prompt, bc.model))
  /\ [][bc' # bc => UNCHANGED <<DEFAULT_CONFIG, disk, mgr>>]_vars

\* C3 witness: a mixed-case alias was resolved through one hop
C3_Witness ==
  /\ bc.state = "done"
  /\ bc.model = Str("Opus-4-1")
  /\ bc.out.ok
  /\ Len(bc.out.val) = 4
  /\ bc.out.val[3] = "claude-opus-4-1-20250805"

---------------------------------------------------------------------------
(* Claims about the orchestrator, checked under SpecMain *)

Has(e) == \E i \in 1..Len(trace) : trace[i] = e

Before(a, b) == \E i, j \in 1..Len(trace) : i < j /\ trace[i] = a /\ trace[j] = b

\* C1: the external command is spawned only after no informational flag was
\* handled, the provider was found in the registry, check_available() returned
\* true and build_command() returned, in this order, and never with --dry-run;
\* an unavailable provider ends the run with exit code 1 and no spawn, even
\* with --dry-run; a dry run that passes the earlier steps ends with 0 and no
\* spawn.
C1_SpawnOnlyAfterChecks ==
  /\ env.spawned > 0 =>
       /\ Before("no_flag", "registry")
       /\ Before("registry", "available")
       /\ Before("available", "built")
       /\ Before("built", "spawned")
       /\ ~Has("unavailable")
       /\ ~args.dry_run
  /\ (pc = "done" /\ Has("unavailable")) =>
       (exitCode.code = 1 /\ env.spawned = 0)
  /\ (pc = "done" /\ args.dry_run /\ Has("built")) =>
       (exitCode.code = 0 /\ env.spawned = 0)

\* C1 witness: a run that spawned the command and saw it end
C1_Witness ==
  /\ pc = "done"
  /\ env.spawned = 1
  /\ trace = <<"parsed", "validated", "loaded", "no_flag", "registry",
               "available", "built", "spawned", "exited">>

\* the stored configuration of the run
StoredProvider == Current["default_provider"]

HasStoredModel(name) ==
  /\ IsDict(Current["default_models"])
  /\ name \in DOMAIN Current["default_models"].d

StoredModel(name) == Current["default_models"].d[name]

ProviderResolved == Has("registry") \/ Has("unknown_provider")

ModelResolved == Has("built") \/ Has("unknown_model") \/ Has("build_raised")

\* C2 as claimed: the provider is the -p flag if given, else the stored
\* default_provider; the model passed to build_command is the -m flag if
\* given, else the stored default_models entry of the provider if present,
\* else "haiku".
C2_PrecedenceByPresence ==
  /\ ProviderResolved =>
       env.provider = IF args.provider # Null THEN args.provider ELSE StoredProvider
  /\ ModelResolved =>
       env.model = IF args.model # Null THEN args.model
                   ELSE IF HasStoredModel(env.provider.v)
                        THEN StoredModel(env.provider.v)
                        ELSE Str("haiku")

\* a value Python's "or" does not skip: not None, "", 0 or an empty mapping
Usable(v) ==
  /\ v # Null
  /\ v # Str("")
  /\ v # IntV(0)
  /\ v # Dict(EmptyMap)

\* C2 as amended: a source counts only when its value is usable (non-empty):
\* the provider is the -p flag if it is a non-empty string, else the stored
\* default_provider; the model is the -m flag if it is a non-empty string,
\* else the stored entry if it is present and usable, else "haiku".
C2_PrecedenceByTruth ==
  /\ ProviderResolved =>
       env.provider = IF Usable(args.provider) THEN args.provider ELSE StoredProvider
  /\ ModelResolved =>
       env.model = IF Usable(args.model) THEN args.model
                   ELSE IF HasStoredModel(env.provider.v)
                           /\ Usable(StoredModel(env.provider.v))
                        THEN StoredModel(env.provider.v)
                        ELSE Str("haiku")

\* C2 witness: no -m flag and a stored model: the stored model was passed on
C2_Witness ==
  /\ Has("built")
  /\ args.model = Null
  /\ args.provider = Null
  /\ HasStoredModel("claude")
  /\ StoredModel("claude") = Str("Sonnet")
  /\ env.model = Str("Sonnet")
  /\ env.command[3] = "claude-sonnet-4-5-20250929"

\* C4: a child that ran to completion gives main() its exit code as the
\* return value, whatever it is; the command is spawned at most once.
C4_ChildStatusReturned ==
  /\ env.spawned <= 1
  /\ env.child.state = "exited" =>
       (pc = "done" /\ exitCode = Return(env.child.rc))

\* C4 witness: the child ended with 130, and so did main()
C4_Witness ==
  /\ env.child.state = "exited"
  /\ env.child.rc = 130
  /\ exitCode.ended
  /\ exitCode.code = 130
  /\ exitCode.how = "return"

\* no part of the run touched the configuration or started the command
NothingDone ==
  /\ disk = env.disk0
  /\ mgr.state = "none"
  /\ last.op = "none"
  /\ env.spawned = 0
  /\ \A e \in {"loaded", "load_raised", "config_path", "config_show",
               "config_reset", "spawned"} : ~Has(e)

---------------------------------------------------------------------------
(* Claims about the configuration store, checked under SpecConfig *)

SaveSucceeded == last.saveTried /\ ~last.raised /\ ~last.warned

HoldsOnDisk(c) ==
  /\ disk.exists
  /\ disk.kind = "json"
  /\ Decode(disk.doc) = Dict(c)

\* C6: after any sequence of set() calls, reset_to_defaults() leaves the
\* in-memory configuration equal to the compiled-in default mapping and, when
\* the save succeeds, the file holds that mapping.
C6_ResetRestoresDefaults ==
  last.op = "reset" =>
    /\ Current = DefaultMapping
    /\ SaveSucceeded => HoldsOnDisk(DefaultMapping)

\* a file that exists and cannot be read or parsed into a mapping
Unloadable(d, failAt) ==
  /\ d.exists
  /\ \/ failAt = "read"
     \/ d.kind \in {"binary", "garbage", "partial"}
     \/ d.kind = "json" /\ d.doc.j # "object"

\* C7: load() never raises; an unreadable or unparsable file gives the
\* defaults in memory, a warning, and an unchanged file; an absent file gives
\* the defaults in memory and (the save succeeding) on disk.
C7_LoadNeverRaises ==
  last.op = "load" =>
    /\ ~last.raised
    /\ Unloadable(last.before, last.failAt) =>
         /\ mgr.state = "live"
         /\ Current = DEFAULT_CONFIG
         /\ last.warned
         /\ disk = last.before
    /\ (~last.before.exists /\ SaveSucceeded) =>
         /\ mgr.state = "live"
         /\ Current = DEFAULT_CONFIG
         /\ HoldsOnDisk(DEFAULT_CONFIG)

SameContent(d1, d2) ==
  /\ d1.exists = d2.exists
  /\ d1.exists => (d1.kind = d2.kind /\ d1.doc = d2.doc)

\* C8: save() does not raise; when a step of it fails it warns and the file's
\* content is what it was before the call; when every step succeeds the file
\* holds the in-memory configuration with mode 0o600.
C8_SaveAtomicOnFailure ==
  last.saveTried =>
    /\ ~last.raised
    /\ last.failAt # "none" => (last.warned /\ SameContent(disk, last.before))
    /\ (last.failAt = "none" /\ ~last.raised) =>
         (HoldsOnDisk(Current) /\ disk.mode = "0o600")

\* a load that read a JSON object from the file
LoadedObject ==
  /\ last.op = "load"
  /\ ~last.raised
  /\ last.failAt # "read"
  /\ last.before.exists
  /\ last.before.kind = "json"

\* C9: the merged configuration (a) keeps every top-level key of the loaded
\* mapping with its loaded value, unknown keys included, (b) has every default
\* top-level key the file lacks with its default value, and (c) where default
\* and loaded value are both mappings holds their key-by-key union in which
\* the loaded entries win and the default entries absent from the file stay.
\* The defaults are the class attribute as the loading process holds it.
C9_MergeKeepsLoadedFillsDefaults ==
  LoadedObject =>
    LET loaded == Decode(last.before.doc).d
        D      == DEFAULT_CONFIG
    IN  /\ DOMAIN Current = (DOMAIN loaded) \cup (DOMAIN D)
        /\ \A k \in (DOMAIN D) \ (DOMAIN loaded) : Current[k] = D[k]
        /\ \A k \in DOMAIN loaded :
             IF k \in DOMAIN D /\ IsDict(D[k]) /\ IsDict(loaded[k])
             THEN /\ IsDict(Current[k])
                  /\ DOMAIN Current[k].d = (DOMAIN D[k].d) \cup (DOMAIN loaded[k].d)
                  /\ \A m \in DOMAIN loaded[k].d : Current[k].d[m] = loaded[k].d[m]
                  /\ \A m \in (DOMAIN D[k].d) \ (DOMAIN loaded[k].d) :
                       Current[k].d[m] = D[k].d[m]
             ELSE Current[k] = loaded[k]

\* C9 witness: a file that names only a third provider's model was loaded; the
\* third provider is kept and both default providers are filled in.
C9_Witness ==
  /\ LoadedObject
  /\ DOMAIN Decode(last.before.doc).d = {"default_models"}
  /\ DOMAIN Current = {"default_provider", "default_models", "max_response_words"}
  /\ DOMAIN Current["default_models"].d = {"claude", "gemini", "openai"}
  /\ Current["default_models"].d["openai"] = Str("gpt-4")

\* a fresh manager has just loaded the file that a successful save wrote
Reloaded ==
  /\ LoadedObject
  /\ saved.valid
  /\ nsets > 0
  /\ last.before.doc = Encode(Dict(saved.cfg))

\* C10 as claimed: after any set() calls, a successful save followed by a load
\* by a fresh ConfigManager yields a mapping equal to the one saved.
C10_RoundTripExact == Reloaded => Current = saved.cfg

\* C10 as amended: the reload has the top-level keys of the saved mapping; a
\* saved value comes back unchanged, except a mapping saved under a key whose
\* default is a mapping: it comes back with its saved entries unchanged plus
\* every entry of the default mapping (as the loading process holds it) whose
\* key it lacks.
C10_RoundTripFillsDefaults ==
  Reloaded =>
    LET D == DEFAULT_CONFIG
    IN  /\ DOMAIN Current = DOMAIN saved.cfg
        /\ \A k \in DOMAIN saved.cfg :
             IF k \in DOMAIN D /\ IsDict(D[k]) /\ IsDict(saved.cfg[k])
             THEN /\ IsDict(Current[k])
                  /\ DOMAIN Current[k].d =
                       (DOMAIN saved.cfg[k].d) \cup (DOMAIN D[k].d)
                  /\ \A m \in DOMAIN saved.cfg[k].d :
                       Current[k].d[m] = saved.cfg[k].d[m]
                  /\ \A m \in (DOMAIN D[k].d) \ (DOMAIN saved.cfg[k].d) :
                       Current[k].d[m] = D[k].d[m]
             ELSE Current[k] = saved.cfg[k]

\* C10 witness: default_models was replaced by a one-entry mapping, saved, and
\* reloaded; the reload holds the default entry the saved mapping lacked.
C10_Witness ==
  /\ Reloaded
  /\ IsDict(saved.cfg["default_models"])
  /\ DOMAIN saved.cfg["default_models"].d = {"claude"}
  /\ DOMAIN Current["default_models"].d = {"claude", "gemini"}

---------------------------------------------------------------------------
(* _resolve_model on its own: every model name, then the short name fed back *)

\* a call of provider._resolve_model(model)
ResolveCall ==
  /\ bc.state = "resolve"
  /\ bc' = [state |-> "resolved", model |-> bc.model,
            out |-> resolve_model(bc.model)]
  /\ UNCHANGED <<DEFAULT_CONFIG, disk, mgr, last, saved, nsets, nloads,
                 args, pc, exitCode, trace, env>>

\* the caller feeds the short name of the identifier it got back in
ResolveAgain ==
  /\ bc.state = "resolved"
  /\ bc.out.ok
  /\ \E short \in DOMAIN MODELS :
       /\ MODELS[short] = bc.out.val
       /\ bc' = [state |-> "again", model |-> bc.model, out |-> bc.out,
                 short |-> short, out2 |-> resolve_model(Str(short))]
  /\ UNCHANGED <<DEFAULT_CONFIG, disk, mgr, last, saved, nsets, nloads,
                 args, pc, exitCode, trace, env>>

InitResolve ==
  /\ CfgStart(Absent)
  /\ MainIdle
  /\ \E m \in ModelArgs : bc = [state |-> "resolve", model |-> m]

NextResolve == ResolveCall \/ ResolveAgain

SpecResolve == InitResolve /\ [][NextResolve]_vars

---------------------------------------------------------------------------
(* The configuration file across one run of main() *)

\* the run did not perform --config-reset
NoResetPerformed == ~Has("config_reset")

\* C11 as claimed: in a run of main() that does not perform --config-reset,
\* the configuration file is never created or written, whether or not it
\* existed when the run began.
C11_FileNeverWritten == NoResetPerformed => disk = env.disk0

\* C11 as amended: in a run of main() that does not perform --config-reset, a
\* file that existed when the run began is left exactly as it was; a file that
\* did not exist is created by the load at startup and by nothing else, the
\* only text written to it is the compiled-in default mapping, and it is still
\* missing after the load only if the save failed with a warning.
C11_FileWrittenOnlyWhenAbsent ==
  NoResetPerformed =>
    IF env.disk0.exists
    THEN disk = env.disk0
    ELSE /\ disk.exists => Has("loaded")
         /\ (disk.exists /\ disk.kind = "json") =>
               Decode(disk.doc) = Dict(DefaultMapping)
         /\ (disk.exists /\ disk.kind # "json") =>
               disk.kind = "partial" /\ disk.doc.items = <<>> /\ last.warned
         /\ (Has("loaded") /\ ~disk.exists) => last.warned

\* C11 witness: a dry run that began without a file has ended and the file
\* now holds the defaults; and it is not a run that reset anything.
C11_Witness ==
  /\ NoResetPerformed
  /\ Has("dry_run")
  /\ ~env.disk0.exists
  /\ disk = File("json", Encode(Dict(DefaultMapping)), "0o600")


---------------------------------------------------------------------------
(* The alias table and the resolution of case variants *)

\* s is a of some letter case: the same characters up to case
CaseVariant(s, a) ==
  /\ Len(Chars(s)) = Len(Chars(a))
  /\ \A i \in 1..Len(Chars(a)) :
       Chars(s)[i] = Chars(a)[i] \/ LowerChar(Chars(s)[i]) = Chars(a)[i]

\* the alias the resolved name is a case variant of, if any
IsVariantOfAlias ==
  /\ bc.state \in {"resolved", "again"}
  /\ bc.model.t = "str"
  /\ \E a \in DOMAIN MODEL_ALIASES : CaseVariant(bc.model.v, a)

\* C12: every entry of the alias table maps to a key of the canonical table
\* (one hop), every canonical short name is its own alias, and so every
\* letter-case variant of every alias resolves, to the identifier of the short
\* name the alias maps to; resolving that short name again gives the same
\* identifier.
C12_AliasesResolveInOneHop ==
  /\ \A a \in DOMAIN MODEL_ALIASES : MODEL_ALIASES[a] \in DOMAIN MODELS
  /\ \A m \in DOMAIN MODELS :
       m \in DOMAIN MODEL_ALIASES /\ MODEL_ALIASES[m] = m
  /\ \A a \in DOMAIN MODEL_ALIASES :
       (/\ bc.state \in {"resolved", "again"}
        /\ bc.model.t = "str"
        /\ CaseVariant(bc.model.v, a)) =>
          /\ bc.out.ok
          /\ MODEL_ALIASES[a] \in DOMAIN MODELS
          /\ bc.out.val = MODELS[MODEL_ALIASES[a]]
          /\ bc.out = resolve_model(Str(MODEL_ALIASES[a]))
          /\ bc.state = "again" =>
               /\ bc.short = MODEL_ALIASES[a]
               /\ bc.out2 = bc.out

\* C12 witness: an upper-case variant of a two-hyphen alias was resolved and
\* its short name fed back in.
C12_Witness ==
  /\ bc.state = "again"
  /\ bc.model = Str("4-5-HAIKU")
  /\ bc.short = "haiku"
  /\ bc.out2 = Ok("claude-haiku-4-5-20251001")

---------------------------------------------------------------------------
(* The compiled-in defaults across managers of one process *)

\* a manager was just built from no file: what it holds is its defaults
StartedFromDefaults ==
  /\ last.op = "load"
  /\ ~last.raised
  /\ ~last.before.exists

\* C13: no sequence of load, set, save and reset modifies the compiled-in
\* default mapping (its nested default_models mapping included), and a set()
\* on one manager never changes what a later manager of the same process
\* starts with as defaults.
C13_DefaultsNeverModified ==
  /\ DEFAULT_CONFIG = DefaultMapping
  /\ StartedFromDefaults => Current = DefaultMapping

=============================================================================
